---- MODULE Spec2Model ----
(***************************************************************************)
(* Model of the instructor assistant: the document pipeline                *)
(* (process_documents.py), the persisted vector index (qa_chain.py) and    *)
(* the Streamlit script that drives them (app.py).                         *)
(*                                                                         *)
(* Text is a sequence of one-character strings, so that strip, lower,      *)
(* split and difflib's similarity ratio are computed, not assumed.         *)
(***************************************************************************)
EXTENDS Integers, Sequences, FiniteSets, TLC

VARIABLES
    \* ---- files on disk
    uploads,            \* names of the files in UPLOAD_DIR
    vsFaiss,            \* state of VECTOR_PATH/index.faiss
    vsPkl,              \* state of VECTOR_PATH/index.pkl
    vsStored,           \* the index that the files under VECTOR_PATH hold
    custom_csv,         \* rows of custom_qa.csv
    blocked_csv,        \* rows of blocked_quiz_questions.csv
    \* ---- one run of the script app.py
    pc,                 \* position of the script
    custom_qna,         \* app.py:41
    blocked_questions,  \* app.py:58
    debate_file,        \* value of the debate file_uploader widget
    docs,               \* app.py:113
    vectorstore,        \* app.py:106
    qa,                 \* app.py:106
    query,              \* app.py:122
    emitted,            \* what the question block wrote to the page
    calls,              \* functions the question block invoked
    fault,              \* exception that ended the run, "" when none
    path,               \* branch taken at app.py:107-117
    dirAtLoad,          \* os.listdir(UPLOAD_DIR) seen at app.py:107-111
    \* ---- the chunker applied to arbitrary documents
    documents,          \* argument of split_documents
    smart_chunks,       \* its result
    stage               \* "input" before the call, "split" after it

appVars == <<uploads, vsFaiss, vsPkl, vsStored, custom_csv, blocked_csv, pc,
             custom_qna, blocked_questions, debate_file, docs, vectorstore,
             qa, query, emitted, calls, fault, path, dirAtLoad>>

chunkVars == <<documents, smart_chunks, stage>>

vars == <<appVars, chunkVars>>

----------------------------------------------------------------------------
(* Bounds *)

\* longest document text, in building blocks, given to split_documents
MaxBlocks == 5

\* most course files placed in the upload directory
MaxFiles == 3

----------------------------------------------------------------------------
(* Python values *)

\* Optional values: None is the empty tuple, a value x is <<x>>
None == << >>

Some(x) == <<x>>

NL == "\n"

\* str.isspace for the characters of the model's alphabet
IsSpace(c) == c \in {" ", NL, "\t", "\r"}

\* str.lower for the characters of the model's alphabet
LowerChar(c) ==
    CASE c = "Q" -> "q"
      [] c = "E" -> "e"
      [] c = "X" -> "x"
      [] OTHER -> c

lower(s) == [i \in 1..Len(s) |-> LowerChar(s[i])]

\* str.strip(): drop leading and trailing whitespace
strip(s) ==
    LET Solid(i) == ~IsSpace(s[i])
    IN  IF \A i \in 1..Len(s) : ~Solid(i)
        THEN << >>
        ELSE SubSeq(s,
                    CHOOSE i \in 1..Len(s) :
                        Solid(i) /\ \A j \in 1..(i - 1) : ~Solid(j),
                    CHOOSE i \in 1..Len(s) :
                        Solid(i) /\ \A j \in (i + 1)..Len(s) : ~Solid(j))

\* str.split(sep): scan left to right, separators do not overlap; start is
\* where the current piece begins
RECURSIVE split_from(_, _, _)
split_from(s, sep, start) ==
    LET hits == {i \in start..(Len(s) - Len(sep) + 1) :
                    SubSeq(s, i, i + Len(sep) - 1) = sep}
        first == CHOOSE i \in hits : \A j \in hits : i <= j
    IN  IF hits = {}
        THEN <<SubSeq(s, start, Len(s))>>
        ELSE <<SubSeq(s, start, first - 1)>>
                \o split_from(s, sep, first + Len(sep))

split(s, sep) == split_from(s, sep, 1)

\* sep.join(parts)
RECURSIVE join(_, _)
join(sep, parts) ==
    IF parts = << >> THEN << >>
    ELSE IF Len(parts) = 1 THEN parts[1]
    ELSE parts[1] \o sep \o join(sep, Tail(parts))

\* concatenation of a sequence of sequences (list.extend in a loop)
RECURSIVE Flatten(_)
Flatten(ss) == IF ss = << >> THEN << >> ELSE Head(ss) \o Flatten(Tail(ss))

\* n copies of the character c
Rep(c, n) == [i \in 1..n |-> c]

\* Op applied to the value of v, a local variable assigned once
Bind(v, Op(_)) == CHOOSE r \in {Op(x) : x \in {v}} : TRUE

----------------------------------------------------------------------------
(* process_documents.py: split_documents *)

\* langchain.schema.Document
Document(text, meta) == [page_content |-> text, metadata |-> meta]

\* the length below which a span is ignored
MIN_CHUNK_LENGTH == 50

\* line 39: trim every line, drop the blank ones, rejoin with one newline
grouped_chunk(chunk) ==
    LET lines == split(chunk, <<NL>>)
        trimmed == [i \in 1..Len(lines) |-> strip(lines[i])]
        NonBlank(l) == l # << >>
    IN  join(<<NL>>, SelectSeq(trimmed, NonBlank))

\* lines 29-41, the body of the loop over documents
chunks_of(doc) ==
    LET raw_chunks == split(doc.page_content, <<NL, NL>>)
        stripped == [i \in 1..Len(raw_chunks) |-> strip(raw_chunks[i])]
        Kept(c) == ~(Len(c) < MIN_CHUNK_LENGTH)
        kept == SelectSeq(stripped, Kept)
    IN  [i \in 1..Len(kept) |-> Document(grouped_chunk(kept[i]), doc.metadata)]

\* a slip that tags every chunk with the metadata of the first document
split_documents_first_meta(ds) ==
    Flatten([i \in 1..Len(ds) |->
        [j \in 1..Len(chunks_of(ds[i])) |->
            Document(chunks_of(ds[i])[j].page_content, ds[1].metadata)]])

split_documents(ds) == Flatten([i \in 1..Len(ds) |-> chunks_of(ds[i])])

----------------------------------------------------------------------------
(* Inputs of the chunker: texts assembled from building blocks *)

W50 == Rep("w", 50)

W25 == Rep("v", 25)

SP23 == Rep(" ", 23)

\* a token is a piece of text or the boundary between two documents
Blocks == {<<"a">>, W25, W50, SP23, <<NL>>}

DocBreak == <<"|">>

Tokens == Blocks \cup {DocBreak}

TokenSeqs == UNION {[1..n -> Tokens] : n \in 0..MaxBlocks}

\* the documents a token sequence spells: document i is tagged as page i
MakeDocuments(toks) ==
    LET texts == split(Flatten(toks), DocBreak)
    IN  [i \in 1..Len(texts) |->
            Document(texts[i], [source |-> <<"uploads", "a", ".pdf">>, page |-> i - 1])]

----------------------------------------------------------------------------
(* difflib: SequenceMatcher and get_close_matches, for sequences shorter   *)
(* than the 200 elements at which the automatic junk heuristic starts      *)

\* length of the common run of a from i and b from j, inside a[..ahi), b[..bhi)
RECURSIVE run_length(_, _, _, _, _, _)
run_length(a, b, i, j, ahi, bhi) ==
    IF i < ahi /\ j < bhi /\ a[i] = b[j]
    THEN 1 + run_length(a, b, i + 1, j + 1, ahi, bhi)
    ELSE 0

\* SequenceMatcher.find_longest_match: the longest block, the one starting
\* earliest in a, and of those the one starting earliest in b
find_longest_match(a, b, alo, ahi, blo, bhi) ==
    LET cands == (alo..(ahi - 1)) \X (blo..(bhi - 1))
        Size(c) == run_length(a, b, c[1], c[2], ahi, bhi)
        Better(c, d) == \/ c[3] > d[3]
                        \/ c[3] = d[3] /\ c[1] < d[1]
                        \/ c[3] = d[3] /\ c[1] = d[1] /\ c[2] <= d[2]
        Pick(sized) ==
            Bind(CHOOSE c \in sized : \A d \in sized : Better(c, d),
                 LAMBDA best : IF best[3] = 0
                               THEN [i |-> alo, j |-> blo, size |-> 0]
                               ELSE [i |-> best[1], j |-> best[2],
                                     size |-> best[3]])
    IN  IF alo >= ahi \/ blo >= bhi
        THEN [i |-> alo, j |-> blo, size |-> 0]
        ELSE Bind({<<c[1], c[2], Size(c)>> : c \in cands}, Pick)

\* SequenceMatcher.get_matching_blocks, summed: characters in matching blocks
RECURSIVE matches(_, _, _, _, _, _)
matches(a, b, alo, ahi, blo, bhi) ==
    LET Around(m) ==
            IF m.size = 0 THEN 0
            ELSE m.size
                 + (IF alo < m.i /\ blo < m.j
                    THEN matches(a, b, alo, m.i, blo, m.j) ELSE 0)
                 + (IF m.i + m.size < ahi /\ m.j + m.size < bhi
                    THEN matches(a, b, m.i + m.size, ahi, m.j + m.size, bhi)
                    ELSE 0)
    IN  Bind(find_longest_match(a, b, alo, ahi, blo, bhi), Around)

\* a ratio 2.0*m/t is kept as the pair <<m, t>>; an empty total is ratio 1.0
Ratio(m, t) == IF t = 0 THEN <<1, 2>> ELSE <<m, t>>

\* r >= cutoff, the cutoff in hundredths
AtLeast(r, cutoff) == 200 * r[1] >= cutoff * r[2]

\* SequenceMatcher.ratio
ratio(a, b) == Ratio(matches(a, b, 1, Len(a) + 1, 1, Len(b) + 1), Len(a) + Len(b))

\* SequenceMatcher.quick_ratio: multiset intersection of the elements
quick_ratio(a, b) ==
    LET Count(s, c) == Cardinality({i \in 1..Len(s) : s[i] = c})
        Avail(i) == Count(b, a[i]) - Count(SubSeq(a, 1, i - 1), a[i])
    IN  Ratio(Cardinality({i \in 1..Len(a) : Avail(i) > 0}), Len(a) + Len(b))

\* SequenceMatcher.real_quick_ratio
real_quick_ratio(a, b) ==
    Ratio(IF Len(a) < Len(b) THEN Len(a) ELSE Len(b), Len(a) + Len(b))

\* code point order of the characters of the model's alphabet
Alphabet == <<"\t", NL, "\r", " ", "E", "Q", "X", "a", "e", "i", "k", "m",
              "o", "q", "t", "u", "x", "z">>

Ord(c) == CHOOSE i \in 1..Len(Alphabet) : Alphabet[i] = c

\* s < t for Python strings
RECURSIVE str_less(_, _)
str_less(s, t) ==
    IF t = << >> THEN FALSE
    ELSE IF s = << >> THEN TRUE
    ELSE IF Head(s) = Head(t) THEN str_less(Tail(s), Tail(t))
    ELSE Ord(Head(s)) < Ord(Head(t))

\* difflib.get_close_matches(word, possibilities, n=1, cutoff): the list with
\* the best (score, x) pair, or the empty list
get_close_matches(word, possibilities, cutoff) ==
    LET result == {x \in possibilities :
                      /\ AtLeast(real_quick_ratio(x, word), cutoff)
                      /\ AtLeast(quick_ratio(x, word), cutoff)
                      /\ AtLeast(ratio(x, word), cutoff)}
        Score(x) == ratio(x, word)
        Larger(x, y) ==
            \/ Score(x)[1] * Score(y)[2] > Score(y)[1] * Score(x)[2]
            \/ /\ Score(x)[1] * Score(y)[2] = Score(y)[1] * Score(x)[2]
               /\ (x = y \/ str_less(y, x))
    IN  IF result = {} THEN << >>
        ELSE <<CHOOSE x \in result : \A y \in result : Larger(x, y)>>

----------------------------------------------------------------------------
(* app.py: the override table and the blocklist *)

\* default threshold of find_best_match and is_blocked_question, in hundredths
THRESHOLD == 85

\* dict assignment d[k] = v
Put(d, k, v) == [x \in (DOMAIN d) \cup {k} |-> IF x = k THEN v ELSE d[x]]

EmptyDict == [x \in {} |-> << >>]

\* lines 31-33: the loop over the rows of the reader
RECURSIVE qna_rows(_, _)
qna_rows(d, rows) ==
    IF rows = << >> THEN d
    ELSE LET row == Head(rows)
         IN  qna_rows(IF Len(row) >= 2
                      THEN Put(d, lower(strip(row[1])), strip(row[2]))
                      ELSE d,
                      Tail(rows))

\* csv is None when the file does not exist, else the rows csv.reader yields
load_custom_qna(csv) == IF csv = None THEN EmptyDict ELSE qna_rows(EmptyDict, csv[1])

find_best_match(user_input, qna_dict) ==
    LET input == lower(strip(user_input))
        best_match == get_close_matches(input, DOMAIN qna_dict, THRESHOLD)
    IN  IF best_match # << >> THEN Some(qna_dict[best_match[1]]) ELSE None

\* next(reader, None) skips the header row
load_blocked_questions(csv) ==
    IF csv = None THEN {}
    ELSE LET rows == IF csv[1] = << >> THEN << >> ELSE Tail(csv[1])
         IN  {lower(strip(rows[i][1])) :
                 i \in {k \in 1..Len(rows) :
                           rows[k] # << >> /\ strip(rows[k][1]) # << >>}}

\* a slip that compares the question without lower-casing it
is_blocked_question_no_lower(user_input, blocked_set) ==
    get_close_matches(strip(user_input), blocked_set, THRESHOLD) # << >>

is_blocked_question(user_input, blocked_set) ==
    get_close_matches(lower(strip(user_input)), blocked_set, THRESHOLD) # << >>

\* Python truth value of an Optional string: None and "" are false
Truthy(opt) == opt # None /\ opt[1] # << >>

----------------------------------------------------------------------------
(* The upload directory and process_documents.py: load_documents *)

UPLOAD_DIR == "uploads"

\* a file name is <<stem, extension>>
endswith(file, suffix) == file[2] = suffix

\* files an instructor places in the upload directory
CourseFiles == {<<"syllabus", ".pdf">>, <<"notes", ".docx">>,
                <<"slides", ".pptx">>, <<"scan", ".pdf">>,
                <<"quiz_review", ".csv">>}

\* files a student hands to the debate analyzer (type=["pdf", "docx"])
DebateFiles == {<<"rebuttal", ".pdf">>}

\* files whose reader raises
Corrupt == {<<"scan", ".pdf">>}

\* the order in which os.listdir reports the names: it is the file system's
\* own, so one order is fixed here; it only decides the order of the chunks
DirOrder == <<<<"notes", ".docx">>, <<"quiz_review", ".csv">>,
              <<"rebuttal", ".pdf">>, <<"scan", ".pdf">>,
              <<"slides", ".pptx">>, <<"syllabus", ".pdf">>>>

listdir(dir) ==
    LET Present(f) == f \in dir
    IN  SelectSeq(DirOrder, Present)

\* os.path.join(upload_dir, file)
path_join(upload_dir, file) == <<upload_dir>> \o file

\* the text units the readers find in each readable file
FileTexts(file) ==
    CASE file = <<"syllabus", ".pdf">> -> <<Rep("s", 50), Rep("t", 25)>>
      [] file = <<"notes", ".docx">> ->
            <<Rep("n", 50) \o <<NL, NL>> \o Rep("m", 50)>>
      [] file = <<"slides", ".pptx">> -> <<Rep("p", 25)>>
      [] file = <<"rebuttal", ".pdf">> -> <<Rep("r", 50)>>
      [] OTHER -> << >>

\* loader.load(): one Document per text unit, tagged with its source; the
\* PDF reader also tags the page
loader_load(upload_dir, file) ==
    [i \in 1..Len(FileTexts(file)) |->
        Document(FileTexts(file)[i],
                 IF endswith(file, ".pdf")
                 THEN [source |-> path_join(upload_dir, file), page |-> i - 1]
                 ELSE [source |-> path_join(upload_dir, file)])]

has_loader(file) ==
    endswith(file, ".pdf") \/ endswith(file, ".docx") \/ endswith(file, ".pptx")

\* the result of a call: it raised, or it returned value
Raised == [raised |-> TRUE, value |-> << >>]

Returned(v) == [raised |-> FALSE, value |-> v]

\* dir is the content of the directory upload_dir
load_documents(upload_dir, dir) ==
    LET files == SelectSeq(listdir(dir), has_loader)
    IN  IF \E i \in 1..Len(files) : files[i] \in Corrupt
        THEN Raised
        ELSE Returned(Flatten([i \in 1..Len(files) |->
                                  loader_load(upload_dir, files[i])]))

----------------------------------------------------------------------------
(* qa_chain.py: the persisted index and the answerer *)

\* how a build or a load can end: the embedding model fails, the write of
\* index.faiss fails part way, the write of index.pkl fails part way
StoreOutcomes == {"ok", "embed_error", "faiss_write_error", "pkl_write_error"}

\* how the call of the language model can end
LlmOutcomes == {"ok", "unreachable", "bad_status"}

\* FAISS.from_documents: the index over the chunks; it raises on no chunks
from_documents(chunks) == [chunks |-> chunks]

\* create_vectorstore: embed, build, save_local (index.faiss, then index.pkl).
\* The result names the call's outcome and the files it leaves behind.
create_vectorstore(chunks, outcome) ==
    IF outcome = "embed_error" \/ chunks = << >>
    THEN [result |-> Raised, faiss |-> "absent", pkl |-> "absent"]
    ELSE IF outcome = "faiss_write_error"
    THEN [result |-> Raised, faiss |-> "partial", pkl |-> "absent"]
    ELSE IF outcome = "pkl_write_error"
    THEN [result |-> Raised, faiss |-> "complete", pkl |-> "partial"]
    ELSE [result |-> Returned(from_documents(chunks)),
          faiss |-> "complete", pkl |-> "complete"]

\* load_vectorstore: FAISS.load_local raises on an incomplete snapshot
load_vectorstore(faiss, pkl, stored, outcome) ==
    IF outcome = "embed_error" \/ faiss # "complete" \/ pkl # "complete"
    THEN Raised
    ELSE Returned(stored[1])

build_qa_chain(vs) == [retriever |-> vs, llm |-> "mistral"]

\* the completion the language model returns
Completion == <<"o", "k">>

\* qa.run(query): retrieval, then the language model call
qa_run(chain, q, outcome) ==
    IF outcome = "ok" THEN Returned(Completion) ELSE Raised

----------------------------------------------------------------------------
(* Inputs of the script *)

Header == <<<<"q">>>>

\* blocked_quiz_questions.csv: a header, a question, an empty row and a
\* blank cell
BlockedOne ==
    Some(<<Header, <<<<" ", "Q", "u", "i", "z">>>>, << >>, <<<<" ">>>>>>)

\* blocked_quiz_questions.csv: a header and two questions
BlockedTwo ==
    Some(<<Header, <<<<"q", "u", "i", "z">>>>,
           <<<<"e", "x", "a", "m">>, <<"x">>>>>>)

\* custom_qa.csv: one entry and a one-cell row
CustomOne ==
    Some(<<<<<<"E", "x", "a", "m", " ">>, <<" ", "t", "o">>>>, <<<<"x">>>>>>)

\* custom_qa.csv: an entry that is also blocked, an entry with an empty answer
CustomTwo ==
    Some(<<<<<<"q", "u", "i", "z">>, <<"t", "o">>>>,
           <<<<"e", "x", "a", "m">>, << >>>>>>)

\* the pairs <<custom_qa.csv, blocked_quiz_questions.csv>> an instructor
\* provides; None is an absent file
CsvPairs == {<<CustomOne, None>>, <<CustomTwo, BlockedOne>>, <<None, BlockedTwo>>}

\* what the user types into the question box
Queries == {<< >>, <<"Q", "u", "i", "z">>, <<"q", "u", "i">>,
            <<"e", "x", "a", "m">>, <<"E", "x", "a", " ">>, <<"m", "o">>}

\* app.py:126
REFUSAL == <<"I'm not allowed to answer quiz/exam questions.">>

NoOutput == [kind |-> "none", text |-> << >>]

Warning(text) == [kind |-> "warning", text |-> text]

Write(text) == [kind |-> "write", text |-> text]

----------------------------------------------------------------------------
(* app.py: one run of the script, block by block *)

\* a file appears in the upload directory between two runs
PlaceFile(f) ==
    /\ pc = "idle"
    /\ f \in CourseFiles \ uploads
    /\ Cardinality(uploads \cap CourseFiles) < MaxFiles
    /\ uploads' = uploads \cup {f}
    /\ UNCHANGED <<vsFaiss, vsPkl, vsStored, custom_csv, blocked_csv, pc,
                   custom_qna, blocked_questions, debate_file, docs,
                   vectorstore, qa, query, emitted, calls, fault, path,
                   dirAtLoad, chunkVars>>

\* the globals of the script when no run is under way
NoRun ==
    /\ custom_qna' = EmptyDict
    /\ blocked_questions' = {}
    /\ docs' = None
    /\ vectorstore' = None
    /\ qa' = None
    /\ query' = << >>
    /\ emitted' = NoOutput
    /\ calls' = {}
    /\ fault' = ""
    /\ path' = "none"
    /\ dirAtLoad' = {}

\* the top of the script: a new run starts with fresh globals (lines 41, 58)
ScriptTop ==
    /\ custom_qna' = load_custom_qna(custom_csv)
    /\ blocked_questions' = load_blocked_questions(blocked_csv)
    /\ docs' = None
    /\ vectorstore' = None
    /\ qa' = None
    /\ query' = << >>
    /\ emitted' = NoOutput
    /\ calls' = {}
    /\ fault' = ""
    /\ path' = "none"
    /\ dirAtLoad' = {}

\* the user touches a widget, the uploader holding df, and the script reruns
Interact(df) ==
    /\ pc = "idle"
    /\ pc' = "load"
    /\ debate_file' = df
    /\ ScriptTop
    /\ UNCHANGED <<uploads, vsFaiss, vsPkl, vsStored, custom_csv, blocked_csv,
                   chunkVars>>

\* a variant that leaves the persisted index in place
ResetAllKeepIndex ==
    /\ pc = "idle"
    /\ uploads' = {}
    /\ pc' = "load"
    /\ ScriptTop
    /\ UNCHANGED <<vsFaiss, vsPkl, vsStored, custom_csv, blocked_csv,
                   debate_file, chunkVars>>

\* lines 90-94: the Reset All button, then the rerun from the top
ResetAll ==
    /\ pc = "idle"
    /\ uploads' = {}
    /\ vsFaiss' = "absent"
    /\ vsPkl' = "absent"
    /\ vsStored' = None
    /\ pc' = "load"
    /\ ScriptTop
    /\ UNCHANGED <<custom_csv, blocked_csv, debate_file, chunkVars>>

\* lines 109-110: the saved index is loaded
LoadSaved(outcome) ==
    \E r \in {load_vectorstore(vsFaiss, vsPkl, vsStored, outcome)} :
        /\ path' = "load"
        /\ docs' = None
        /\ vectorstore' = IF r.raised THEN None ELSE Some(r.value)
        /\ qa' = IF r.raised THEN None ELSE Some(build_qa_chain(r.value))
        /\ fault' = IF r.raised THEN "load_vectorstore" ELSE ""
        /\ pc' = IF r.raised THEN "failed" ELSE "ask"
        /\ UNCHANGED <<vsFaiss, vsPkl, vsStored>>

\* lines 113-116: an index is built from the upload directory
BuildNew(outcome) ==
    \E d \in {load_documents(UPLOAD_DIR, uploads)} :
        /\ path' = "build"
        /\ IF d.raised
           THEN /\ docs' = None
                /\ vectorstore' = None
                /\ qa' = None
                /\ fault' = "load_documents"
                /\ pc' = "failed"
                /\ UNCHANGED <<vsFaiss, vsPkl, vsStored>>
           ELSE \E c \in {create_vectorstore(split_documents(d.value), outcome)} :
                /\ docs' = Some(d.value)
                /\ vsFaiss' = c.faiss
                /\ vsPkl' = c.pkl
                /\ vsStored' = IF c.result.raised THEN None
                               ELSE Some(c.result.value)
                /\ vectorstore' = IF c.result.raised THEN None
                                  ELSE Some(c.result.value)
                /\ qa' = IF c.result.raised THEN None
                         ELSE Some(build_qa_chain(c.result.value))
                /\ fault' = IF c.result.raised THEN "create_vectorstore"
                            ELSE ""
                /\ pc' = IF c.result.raised THEN "failed" ELSE "ask"

\* lines 106-117: load the saved index, or build one from the uploads
LoadBlock(outcome) ==
    /\ pc = "load"
    /\ dirAtLoad' = uploads
    /\ IF vsFaiss # "absent"
       THEN LoadSaved(outcome)
       ELSE IF listdir(uploads) # << >>
       THEN BuildNew(outcome)
       ELSE /\ path' = "none"
            /\ pc' = "ask"
            /\ UNCHANGED <<vsFaiss, vsPkl, vsStored, docs, vectorstore, qa,
                           fault>>
    /\ UNCHANGED <<uploads, custom_csv, blocked_csv, custom_qna,
                   blocked_questions, debate_file, query, emitted, calls,
                   chunkVars>>

\* lines 121-129: the question box; q is the text it holds
AskBlock(q, outcome) ==
    /\ pc = "ask"
    /\ IF qa # None /\ q # << >>
       THEN /\ query' = q
            /\ IF is_blocked_question(q, blocked_questions)
               THEN /\ emitted' = Warning(REFUSAL)
                    /\ calls' = {"is_blocked_question"}
                    /\ fault' = ""
                    /\ pc' = "debate"
               ELSE LET answer == find_best_match(q, custom_qna)
                        r == qa_run(qa[1], q, outcome)
                    IN  IF Truthy(answer)
                        THEN /\ emitted' = Write(answer[1])
                             /\ calls' = {"is_blocked_question",
                                          "find_best_match"}
                             /\ fault' = ""
                             /\ pc' = "debate"
                        ELSE /\ calls' = {"is_blocked_question",
                                          "find_best_match", "qa.run"}
                             /\ emitted' = IF r.raised THEN NoOutput
                                           ELSE Write(r.value)
                             /\ fault' = IF r.raised THEN "qa.run" ELSE ""
                             /\ pc' = IF r.raised THEN "failed" ELSE "debate"
       ELSE /\ pc' = "debate"
            /\ UNCHANGED <<query, emitted, calls, fault>>
    /\ UNCHANGED <<uploads, vsFaiss, vsPkl, vsStored, custom_csv, blocked_csv,
                   custom_qna, blocked_questions, debate_file, docs,
                   vectorstore, qa, path, dirAtLoad, chunkVars>>

\* lines 194-201: the debate analyzer saves its upload into UPLOAD_DIR; the
\* rest of the script writes no file, and the run ends
DebateBlock ==
    /\ pc = "debate"
    /\ uploads' = IF debate_file # None
                  THEN uploads \cup {debate_file[1]} ELSE uploads
    /\ pc' = "idle"
    /\ NoRun
    /\ UNCHANGED <<vsFaiss, vsPkl, vsStored, custom_csv, blocked_csv,
                   debate_file, chunkVars>>

\* an uncaught exception ends the run where it was raised
ScriptAbort ==
    /\ pc = "failed"
    /\ pc' = "idle"
    /\ NoRun
    /\ UNCHANGED <<uploads, vsFaiss, vsPkl, vsStored, custom_csv, blocked_csv,
                   debate_file, chunkVars>>

Init ==
    /\ uploads = {}
    /\ vsFaiss = "absent"
    /\ vsPkl = "absent"
    /\ vsStored = None
    /\ \E pair \in CsvPairs : custom_csv = pair[1] /\ blocked_csv = pair[2]
    /\ pc = "idle"
    /\ custom_qna = EmptyDict
    /\ blocked_questions = {}
    /\ debate_file = None
    /\ docs = None
    /\ vectorstore = None
    /\ qa = None
    /\ query = << >>
    /\ emitted = NoOutput
    /\ calls = {}
    /\ fault = ""
    /\ path = "none"
    /\ dirAtLoad = {}
    /\ documents = << >>
    /\ smart_chunks = << >>
    /\ stage = "unused"

Next ==
    \/ \E f \in CourseFiles : PlaceFile(f)
    \/ \E df \in {None} \cup {Some(d) : d \in DebateFiles} : Interact(df)
    \/ ResetAll
    \/ \E outcome \in StoreOutcomes : LoadBlock(outcome)
    \/ \E q \in Queries, outcome \in LlmOutcomes : AskBlock(q, outcome)
    \/ DebateBlock
    \/ ScriptAbort

Spec == Init /\ [][Next]_vars

----------------------------------------------------------------------------
(* The chunker on its own: split_documents applied to bounded inputs *)

Split ==
    /\ stage = "input"
    /\ smart_chunks' = split_documents(documents)
    /\ stage' = "split"
    /\ UNCHANGED <<documents, appVars>>

InitChunk ==
    /\ uploads = {}
    /\ vsFaiss = "absent"
    /\ vsPkl = "absent"
    /\ vsStored = None
    /\ custom_csv = None
    /\ blocked_csv = None
    /\ pc = "unused"
    /\ custom_qna = EmptyDict
    /\ blocked_questions = {}
    /\ debate_file = None
    /\ docs = None
    /\ vectorstore = None
    /\ qa = None
    /\ query = << >>
    /\ emitted = NoOutput
    /\ calls = {}
    /\ fault = ""
    /\ path = "none"
    /\ dirAtLoad = {}
    /\ documents \in {MakeDocuments(toks) : toks \in TokenSeqs}
    /\ smart_chunks = << >>
    /\ stage = "input"

NextChunk == Split

SpecChunk == InitChunk /\ [][NextChunk]_vars

----------------------------------------------------------------------------
(* Properties of the chunker, under SpecChunk *)

\* the text without its whitespace characters
NoWhitespace(s) ==
    LET Solid(c) == ~IsSpace(c)
    IN  SelectSeq(s, Solid)

\* every line of the text is non-empty and starts and ends with a solid
\* character
LinesTrimmed(t) ==
    /\ t # << >>
    /\ ~IsSpace(t[1])
    /\ ~IsSpace(t[Len(t)])
    /\ \A i \in 2..(Len(t) - 1) :
          t[i] = NL => ~IsSpace(t[i - 1]) /\ ~IsSpace(t[i + 1])

\* number of lines of a paragraph that hold a solid character
SolidLines(p) ==
    LET lines == split(p, <<NL>>)
    IN  Cardinality({i \in 1..Len(lines) : NoWhitespace(lines[i]) # << >>})

\* the blank-line-delimited paragraphs of the documents that pass the length
\* threshold, in source order, each with the metadata of its document
PassingParagraphs(ds) ==
    Flatten([d \in 1..Len(ds) |->
        LET paras == split(ds[d].page_content, <<NL, NL>>)
            Passes(p) == Len(strip(p)) >= 50
            passing == SelectSeq(paras, Passes)
        IN  [k \in 1..Len(passing) |->
                [text |-> passing[k], metadata |-> ds[d].metadata]]])

\* C1: every chunk split_documents returns has a text whose stripped length
\* is at least 50, also after the per-line trimming and rejoining
C1_MinimumLength ==
    stage = "split" =>
        \A i \in 1..Len(smart_chunks) :
            Len(strip(smart_chunks[i].page_content)) >= 50

\* C8: the chunks are, in source order, exactly the paragraphs that pass the
\* threshold: one chunk per passing paragraph, with the same solid characters,
\* one trimmed line per non-blank line, and the metadata of its document
C8_ChunksAreParagraphs ==
    stage = "split" =>
        LET expected == PassingParagraphs(documents)
        IN  /\ Len(smart_chunks) = Len(expected)
            /\ \A i \in 1..Len(expected) :
                  /\ smart_chunks[i].metadata = expected[i].metadata
                  /\ NoWhitespace(smart_chunks[i].page_content)
                        = NoWhitespace(expected[i].text)
                  /\ LinesTrimmed(smart_chunks[i].page_content)
                  /\ Len(split(smart_chunks[i].page_content, <<NL>>))
                        = SolidLines(expected[i].text)

\* C8 witness: two documents each gave a chunk, and one chunk has two lines
C8_Witness ==
    /\ stage = "split"
    /\ Len(smart_chunks) >= 2
    /\ smart_chunks[1].metadata # smart_chunks[2].metadata
    /\ \E i \in 1..Len(smart_chunks) :
          Len(split(smart_chunks[i].page_content, <<NL>>)) = 2

----------------------------------------------------------------------------
(* Properties of the script, under Spec *)

\* the question, lower-cased and trimmed, is within the threshold of a key
FuzzyHit(q, keys) ==
    \E k \in keys : 100 * 2 * matches(k, lower(strip(q)), 1, Len(k) + 1,
                                      1, Len(lower(strip(q))) + 1)
                        >= 85 * (Len(k) + Len(lower(strip(q))))

\* the documents of the readable supported files of a directory
ReadableDocuments(dir) ==
    LET Readable(f) == has_loader(f) /\ f \notin Corrupt
        files == SelectSeq(listdir(dir), Readable)
    IN  Flatten([i \in 1..Len(files) |-> loader_load(UPLOAD_DIR, files[i])])

\* C2: a build reads the documents of every readable file of the directory,
\* and exactly those, whatever other files the directory holds
C2_ReaderFailureIsolated ==
    path = "build" =>
        /\ fault # "load_documents"
        /\ docs = Some(ReadableDocuments(dirAtLoad))

\* C3: a question that matches the blocklist gets the refusal, and neither
\* the override lookup nor the answerer is invoked
C3_BlockedIsRefused ==
    (query # << >> /\ FuzzyHit(query, blocked_questions)) =>
        /\ emitted = Warning(REFUSAL)
        /\ "find_best_match" \notin calls
        /\ "qa.run" \notin calls

\* C3 witness: a handled question that is near, not equal to, a blocked
\* question and also matches a key of the override table
C3_Witness ==
    /\ query # << >>
    /\ FuzzyHit(query, blocked_questions)
    /\ lower(strip(query)) \notin blocked_questions
    /\ FuzzyHit(query, DOMAIN custom_qna)
    /\ emitted.kind = "warning"

\* C4: answering a question never ends in an unhandled fault; a failed
\* language model call leaves a displayable failure string
C4_AnswerNeverFaults ==
    "qa.run" \in calls => fault = "" /\ emitted.kind = "write"

\* C5: a run that finds the upload directory empty loads and builds no
\* index, constructs no answerer and raises nothing
C5_EmptyUploadsDisabled ==
    (pc \in {"ask", "debate", "failed"} /\ dirAtLoad = {}) =>
        /\ vectorstore = None
        /\ qa = None
        /\ path = "none"
        /\ fault = ""

\* C5 witness: the index block has run on an empty upload directory while
\* the debate uploader holds a file
C5_Witness ==
    /\ pc = "ask"
    /\ uploads = {}
    /\ dirAtLoad = {}
    /\ debate_file # None
    /\ qa = None

\* C6: index.faiss exists only as part of a complete snapshot
C6_NoPartialSnapshot ==
    vsFaiss # "absent" => vsFaiss = "complete" /\ vsPkl = "complete"

\* C7: a question that is not blocked and matches a key of the override
\* table gets the stored answer of the best key and the answerer is not
\* invoked; the answerer is invoked only when neither table matches
C7_OverrideBypassesAnswerer ==
    /\ (/\ query # << >>
        /\ ~FuzzyHit(query, blocked_questions)
        /\ FuzzyHit(query, DOMAIN custom_qna)) =>
            /\ "qa.run" \notin calls
            /\ fault = ""
            /\ emitted = Write(custom_qna[get_close_matches(
                   lower(strip(query)), DOMAIN custom_qna, 85)[1]])
    /\ "qa.run" \in calls =>
            /\ ~FuzzyHit(query, blocked_questions)
            /\ ~FuzzyHit(query, DOMAIN custom_qna)

\* C9: when a run constructs an answerer, its index holds exactly the chunks
\* of the supported files the upload directory holds in that run
C9_IndexMatchesCorpus ==
    qa # None =>
        LET d == load_documents(UPLOAD_DIR, dirAtLoad)
        IN  /\ ~d.raised
            /\ vectorstore[1].chunks = split_documents(d.value)

\* C10: no index, in memory or persisted, holds a chunk of a file that was
\* uploaded to the debate analyzer
C10_DebateFileNotIndexed ==
    LET DebatePaths == {path_join(UPLOAD_DIR, d) : d \in DebateFiles}
        Clean(index) ==
            \A i \in 1..Len(index.chunks) :
                index.chunks[i].metadata.source \notin DebatePaths
    IN  /\ vectorstore # None => Clean(vectorstore[1])
        /\ vsStored # None => Clean(vsStored[1])

====
